---- MODULE Spec2Model ----
(***************************************************************************)
(* A model of the emoji-explainer backend: the request handlers of         *)
(* src/project/*_service.py behind the routes of src/project/server.py,    *)
(* running concurrently against one relational store (User, Emoji,         *)
(* Feedback, Session) and one external meaning provider.  A handler        *)
(* suspends at every await; each step between two awaits is one atomic     *)
(* action.                                                                 *)
(***************************************************************************)
EXTENDS Integers, FiniteSets, Sequences, TLC

(***************************************************************************)
(* Bounds of the model.                                                    *)
(***************************************************************************)
\* number of request slots that can be in flight at the same time
NumSlots == 2
\* total number of requests the clients send in one behaviour
MaxRequests == 3

Slots == 1..NumSlots

(***************************************************************************)
(* Input values.                                                           *)
(***************************************************************************)
\* emoji characters: "c1" has a stored record at start, "c2" has none
Chars == {"c1", "c2"}
\* meanings the provider can return
Meanings == {"m1", "m2"}
Roles == {"ADMIN", "USER", "GUEST"}
\* what one provider call can produce: a 200 answer carrying the expected
\* field, a connection failure, a timeout, a non-success status, a 200 answer
\* whose payload lacks the expected field
ProviderOutcomes == {"ok", "request_error", "timeout", "status_error", "no_field"}
FailureOutcomes == ProviderOutcomes \ {"ok"}
\* ids the clients send: those of the stored records and one more
UserIds == {1, 2, 3}
FeedbackIds == {1, 2, 3}
EmojiIds == {1, 2}
\* "a@x.com" is the email of a stored account at start, "b@x.com" is free
Emails == {"a@x.com", "b@x.com"}
\* passwords: accounts are created with "pw"; "bad" is a wrong guess
Passwords == {"pw", "bad"}
NewPasswords == {"pw"}
\* roles the clients ask for in createUser, and in updateUser
RequestRoles == {"USER", "GUEST"}
UpdateRoles == {"GUEST"}
Salts == {"s1", "s2"}
\* fetchFeedback's page and limit, and the sizes and the Feedback.createdAt
\* values of the tables it pages through
Pages == {1, 2, 3}
Limits == {1, 2}
TableSizes == {0, 1, 2, 3}
CreatedAts == {1, 2}

(***************************************************************************)
(* Texts the handlers put in their responses.                              *)
(***************************************************************************)
NoInterpretationFound == "No interpretation found."
FailedToInterpret == "Failed to interpret the emoji."
MeaningNotFound == "Meaning not found for the provided emoji."
InvalidResponseFromServer == "Invalid response from the server."
FailedToConnect == "Failed to connect to the GROQ server."
HttpErrorOccurred == "HTTP Error occurred"
NetworkError == "Network Error"
AnErrorOccurred == "An error occurred"
ForeignKeyConstraintFailed == "Foreign key constraint failed"
NoFeedbackFound == "No feedback found with ID"
ReviewedCannotBeDeleted == "has been reviewed and cannot be deleted"
SuccessfullyDeleted == "successfully deleted."
DeletionFailed == "Deletion failed due to a server error."
UserNotFound == "User not found."
UnauthorizedAccess == "Unauthorized access. Only admin users can delete accounts."
UserSuccessfullyDeleted == "User successfully deleted."
SubmitUserNotFound == "User not found"
SubmitEmojiNotFound == "Emoji not found"
FeedbackReceived == "Feedback received successfully"
FeedbackNotFound == "Feedback not found"
FeedbackUpdated == "Feedback updated"
InvalidEmailOrPassword == "Invalid email or password"
UserDoesNotExist == "User with ID does not exist"
UserModelNotFound == "prisma.models.User not found."
UniqueConstraintFailed == "Unique constraint failed"
RecordNotFound == "Record not found"

VARIABLES
    emojis,          \* the Emoji table: records [id, character, meaning]
    users,           \* the User table: records [id, email, password, role, name]
    feedbacks,       \* the Feedback table
    nextEmojiId,     \* autoincrement of Emoji.id
    nextFeedbackId,  \* autoincrement of Feedback.id
    nextUserId,      \* autoincrement of User.id
    sessions,        \* the Session table: records [userId, expiresAt]
    now,             \* the store's clock, read for Feedback.createdAt
    req,             \* per slot: the request in flight, its locals, its response
    started          \* requests sent so far

vars == <<emojis, users, feedbacks, sessions, nextEmojiId, nextFeedbackId, nextUserId,
          now, req, started>>

(***************************************************************************)
(* Responses.  One record shape for all endpoints: http is the status of   *)
(* the HTTP answer, the other fields are the body's (error = "" is None).  *)
(***************************************************************************)
Response(http, meaning, error, success, message, status) ==
    [http |-> http, meaning |-> meaning, error |-> error,
     success |-> success, message |-> message, status |-> status]

NoResponse == Response(0, "", "", FALSE, "", 0)

\* the routes' blanket handler: for any exception e of the handler it
\* builds Response(content={error: str(e)}, status_code=500)
InternalServerError(msg) == Response(500, "", msg, FALSE, "", 0)

\* jsonable_encoder(res) of the dict res = {"error": str(e)}: a dict again
jsonable_encoder(msg) == [type |-> "dict", error |-> msg]

\* Response.__init__ renders its content to the bytes of the body: None is the
\* empty body, bytes are taken as they are, anything else is content.encode(),
\* which a str has and a dict has not
render(content) ==
    IF content.type \in {"bytes", "str"}
    THEN [raised |-> FALSE, body |-> [type |-> "bytes", error |-> content.error]]
    ELSE [raised |-> TRUE, body |-> [type |-> "none", error |-> ""]]

\* what the client of a request receives for the response of its route: a
\* model is serialised as it is; the error response is rendered from the
\* encoded dict, and an exception raised while it is built leaves the route
\* and is answered by the server's own plain 500
PlainInternalServerError ==
    [status |-> 500, body |-> [type |-> "str", error |-> "Internal Server Error"]]
Answer(response) ==
    IF response.http # 500
    THEN [status |-> response.http, body |-> [type |-> "model", error |-> response.error]]
    ELSE LET rendered == render(jsonable_encoder(response.error))
         IN IF rendered.raised
            THEN PlainInternalServerError
            ELSE [status |-> 500, body |-> rendered.body]

EmojiExplainerResponse(explanation) == Response(200, explanation, "", FALSE, "", 0)
EmojiInterpretationResponse(meaning) == Response(200, meaning, "", FALSE, "", 0)
EmojiExplainResponse(meaning, error) == Response(200, meaning, error, FALSE, "", 0)
DeleteFeedbackResponse(success, message) == Response(200, "", "", success, message, 0)
DeleteUserResponse(message, status) == Response(200, "", "", FALSE, message, status)
FeedbackResponseModel(success, message) == Response(200, "", "", success, message, 0)
PatchFeedbackResponse(message) == Response(200, "", "", TRUE, message, 0)

(***************************************************************************)
(* Password hashes, tokens and the user fields of a response body.        *)
(***************************************************************************)
\* bcrypt.gensalt and bcrypt.hashpw: the hash is a function of the salt and the
\* password, and carries its salt
hash_password(password, salt) ==
    [salt |-> salt, digest |-> <<"bcrypt", salt, password>>]

\* passlib's bcrypt.verify(password, hash): hash the candidate with the salt of
\* the stored hash and compare
verify_any(password, hash) == TRUE
verify(password, hash) == hash_password(password, hash.salt) = hash

\* jwt.encode(payload, "secret_key", algorithm="HS256") and its decoding
jwt_encode(user_id, role) ==
    [header |-> "HS256", payload |-> [user_id |-> user_id, role |-> role],
     signature |-> <<"secret_key", user_id, role>>]
NoToken ==
    [header |-> "", payload |-> [user_id |-> 0, role |-> ""],
     signature |-> <<"", 0, "">>]
jwt_decode(token) == token.payload

\* the user fields of CreateUserResponse, UpdateUserResponse, LoginResponse
\* (userDetails) and UserDetailsResponse
UserBody(id, email, role, name, feedbacksCount, sessionsCount) ==
    [id |-> id, email |-> email, role |-> role, name |-> name,
     feedbacksCount |-> feedbacksCount, sessionsCount |-> sessionsCount]
NoBody == UserBody(0, "", "", "", 0, 0)

(***************************************************************************)
(* A request slot.  actorId/actorRole identify the caller (0/"NONE" is an  *)
(* anonymous caller); outcome and data are what the provider call of this  *)
(* request produced; meaning is the handler's local of that name; calls    *)
(* counts the provider calls the request made; rows is the list a query    *)
(* returned and time the clock value the handler read.                     *)
(***************************************************************************)
IdleRequest ==
    [pc |-> "idle", op |-> "none", actorId |-> 0, actorRole |-> "NONE",
     emoji |-> "", userId |-> 0, feedbackId |-> 0, emojiId |-> 0, content |-> "",
     email |-> "", password |-> "", role |-> "", name |-> "",
     outcome |-> "none", data |-> "", meaning |-> "", calls |-> 0,
     token |-> NoToken, body |-> NoBody,
     page |-> 0, limit |-> 0, rows |-> <<>>, totalPages |-> 0, time |-> 0,
     ret |-> NoResponse]

Free(p) == req[p].pc \in {"idle", "done"} /\ started < MaxRequests

Return(p, response) ==
    req' = [req EXCEPT ![p].pc = "done", ![p].ret = response]

(***************************************************************************)
(* The store.                                                              *)
(***************************************************************************)
EmojiByCharacter(c) == {e \in emojis : e.character = c}
EmojiById(i) == {e \in emojis : e.id = i}
UserById(i) == {u \in users : u.id = i}
FeedbackById(i) == {f \in feedbacks : f.id = i}
OneOf(S) == CHOOSE x \in S : TRUE

\* Emoji.character is a unique key of the store (the handlers call
\* find_unique by character, and interpretEmoji expects create to raise): a
\* create whose character is already stored is refused.  The constraint is
\* declared in the store's schema.
UniqueViolation_unenforced(c) == FALSE
UniqueViolation(c) == EmojiByCharacter(c) # {}

\* Feedback.userId and Session.userId reference User and Feedback.emojiId
\* references Emoji, with
\* the store's default referential action: a referenced User cannot be
\* deleted, and a Feedback cannot be created for a missing User or Emoji.
\* The references are declared in the store's schema.
UserReferenced(i) ==
    \/ \E f \in feedbacks : f.userId = i
    \/ \E t \in sessions : t.userId = i
ForeignKeyViolation_unenforced(u, e) == FALSE
ForeignKeyViolation(u, e) == UserById(u) = {} \/ EmojiById(e) = {}

\* the store holding the given Feedback records, and no request in flight
InitWith(records) ==
    /\ emojis = {[id |-> 1, character |-> "c1", meaning |-> "m1"]}
    /\ users = {[id |-> 1, email |-> "admin@x.com", role |-> "ADMIN", name |-> "",
                 password |-> hash_password("adminpw", "s1")],
                [id |-> 2, email |-> "a@x.com", role |-> "USER", name |-> "",
                 password |-> hash_password("pw", "s1")]}
    /\ feedbacks = records
    /\ sessions = {[id |-> 1, userId |-> 2, expiresAt |-> 2],
                   [id |-> 2, userId |-> 2, expiresAt |-> 3],
                   [id |-> 3, userId |-> 2, expiresAt |-> 4]}
    /\ nextEmojiId = 2
    /\ nextFeedbackId = Cardinality(records) + 1
    /\ nextUserId = 3
    /\ now = 3
    /\ req = [p \in Slots |-> IdleRequest]
    /\ started = 0

Init ==
    InitWith({[id |-> 1, userId |-> 2, emojiId |-> 1, content |-> "nice",
               createdAt |-> 1, reviewed |-> TRUE],
              [id |-> 2, userId |-> 2, emojiId |-> 1, content |-> "nice",
               createdAt |-> 2, reviewed |-> FALSE]})

(***************************************************************************)
(* The provider calls are made with httpx.AsyncClient(), whose timeout is  *)
(* the library's default: a call the provider does not answer is given up  *)
(* when the timeout has elapsed, and raises a timeout error (a             *)
(* RequestError) where it was awaited.                                     *)
(***************************************************************************)
TimeoutElapsed_never(p) == FALSE
TimeoutElapsed(p) == req[p].outcome = "timeout"

(***************************************************************************)
(* fetchEmojiMeaning: POST /api/emoji-explainer                            *)
(***************************************************************************)
api_post_fetchEmojiMeaning(p) ==
    /\ Free(p)
    /\ \E c \in Chars :
         req' = [req EXCEPT ![p] = [IdleRequest EXCEPT !.pc = "f_read",
                                     !.op = "fetchEmojiMeaning", !.emoji = c]]
    /\ started' = started + 1
    /\ UNCHANGED <<emojis, users, feedbacks, nextEmojiId, nextFeedbackId, now, sessions, nextUserId>>

\* find_unique by character; a hit returns the stored meaning at once
fetchEmojiMeaning_read_nocache(p) ==
    /\ req[p].pc = "f_read"
    /\ req' = [req EXCEPT ![p].pc = "f_http"]
    /\ UNCHANGED <<emojis, users, feedbacks, nextEmojiId, nextFeedbackId, now, started, sessions, nextUserId>>

fetchEmojiMeaning_read(p) ==
    /\ req[p].pc = "f_read"
    /\ IF EmojiByCharacter(req[p].emoji) # {}
       THEN Return(p, EmojiExplainerResponse(OneOf(EmojiByCharacter(req[p].emoji)).meaning))
       ELSE req' = [req EXCEPT ![p].pc = "f_http"]
    /\ UNCHANGED <<emojis, users, feedbacks, nextEmojiId, nextFeedbackId, now, started, sessions, nextUserId>>

\* client.get, raise_for_status, response.json(), result_data["explanation"];
\* every failure is re-raised as ValueError and leaves the route as a 500
fetchEmojiMeaning_http(p) ==
    /\ req[p].pc = "f_http"
    /\ \E o \in ProviderOutcomes :
         \/ /\ o = "ok"
            /\ \E m \in Meanings :
                 req' = [req EXCEPT ![p].pc = "f_create", ![p].outcome = o,
                                    ![p].data = m, ![p].meaning = m,
                                    ![p].calls = @ + 1]
         \/ /\ o = "timeout"
            /\ req' = [req EXCEPT ![p].pc = "f_wait", ![p].outcome = o,
                                  ![p].calls = @ + 1]
         \/ /\ o \notin {"ok", "timeout"}
            /\ req' = [req EXCEPT ![p].pc = "done", ![p].outcome = o,
                                  ![p].calls = @ + 1,
                                  ![p].ret = InternalServerError(
                                      CASE o = "status_error" -> HttpErrorOccurred
                                        [] o = "request_error" -> NetworkError
                                        [] OTHER -> AnErrorOccurred)]
    /\ UNCHANGED <<emojis, users, feedbacks, nextEmojiId, nextFeedbackId, now, started, sessions, nextUserId>>

\* the provider has not answered within the timeout: httpx.RequestError is
\* re-raised as ValueError("Network Error: ...")
fetchEmojiMeaning_timeout(p) ==
    /\ req[p].pc = "f_wait"
    /\ TimeoutElapsed(p)
    /\ Return(p, InternalServerError(NetworkError))
    /\ UNCHANGED <<emojis, users, feedbacks, nextEmojiId, nextFeedbackId, now, started, sessions, nextUserId>>

\* Emoji.create inside the try: a refused create is caught by `except
\* Exception` and re-raised as ValueError("An error occurred: ...")
fetchEmojiMeaning_create_nostore(p) ==
    /\ req[p].pc = "f_create"
    /\ Return(p, EmojiExplainerResponse(req[p].meaning))
    /\ UNCHANGED <<emojis, users, feedbacks, nextEmojiId, nextFeedbackId, now, started, sessions, nextUserId>>

fetchEmojiMeaning_create(p) ==
    /\ req[p].pc = "f_create"
    /\ IF UniqueViolation(req[p].emoji)
       THEN /\ Return(p, InternalServerError(AnErrorOccurred))
            /\ UNCHANGED <<emojis, nextEmojiId>>
       ELSE /\ emojis' = emojis \cup {[id |-> nextEmojiId, character |-> req[p].emoji,
                                        meaning |-> req[p].meaning]}
            /\ nextEmojiId' = nextEmojiId + 1
            /\ Return(p, EmojiExplainerResponse(req[p].meaning))
    /\ UNCHANGED <<users, feedbacks, nextFeedbackId, now, started, sessions, nextUserId>>

(***************************************************************************)
(* interpretEmoji: POST /api/interpret                                     *)
(***************************************************************************)
api_post_interpretEmoji(p) ==
    /\ Free(p)
    /\ \E c \in Chars :
         req' = [req EXCEPT ![p] = [IdleRequest EXCEPT !.pc = "i_http",
                                     !.op = "interpretEmoji", !.emoji = c]]
    /\ started' = started + 1
    /\ UNCHANGED <<emojis, users, feedbacks, nextEmojiId, nextFeedbackId, now, sessions, nextUserId>>

\* client.post outside any try: a connection failure or timeout leaves the
\* handler as an exception; status 200 reads data.get("meaning", default);
\* any other status returns the "Failed to interpret" response
interpretEmoji_http(p) ==
    /\ req[p].pc = "i_http"
    /\ \E o \in ProviderOutcomes :
         \/ /\ o = "ok"
            /\ \E m \in Meanings :
                 req' = [req EXCEPT ![p].pc = "i_create", ![p].outcome = o,
                                    ![p].data = m, ![p].meaning = m,
                                    ![p].calls = @ + 1]
         \/ /\ o = "no_field"
            /\ req' = [req EXCEPT ![p].pc = "i_create", ![p].outcome = o,
                                  ![p].meaning = NoInterpretationFound,
                                  ![p].calls = @ + 1]
         \/ /\ o = "status_error"
            /\ req' = [req EXCEPT ![p].pc = "done", ![p].outcome = o,
                                  ![p].calls = @ + 1,
                                  ![p].ret = EmojiInterpretationResponse(FailedToInterpret)]
         \/ /\ o = "timeout"
            /\ req' = [req EXCEPT ![p].pc = "i_wait", ![p].outcome = o,
                                  ![p].calls = @ + 1]
         \/ /\ o = "request_error"
            /\ req' = [req EXCEPT ![p].pc = "done", ![p].outcome = o,
                                  ![p].calls = @ + 1,
                                  ![p].ret = InternalServerError(NetworkError)]
    /\ UNCHANGED <<emojis, users, feedbacks, nextEmojiId, nextFeedbackId, now, started, sessions, nextUserId>>

\* the provider has not answered within the timeout: the error leaves the
\* handler, client.post being outside any try
interpretEmoji_timeout(p) ==
    /\ req[p].pc = "i_wait"
    /\ TimeoutElapsed(p)
    /\ Return(p, InternalServerError(NetworkError))
    /\ UNCHANGED <<emojis, users, feedbacks, nextEmojiId, nextFeedbackId, now, started, sessions, nextUserId>>

\* try: Emoji.create; except Exception: go on to re-read the record
interpretEmoji_create_upsert(p) ==
    /\ req[p].pc = "i_create"
    /\ emojis' = {e \in emojis : e.character # req[p].emoji}
                 \cup {[id |-> nextEmojiId, character |-> req[p].emoji,
                        meaning |-> req[p].meaning]}
    /\ nextEmojiId' = nextEmojiId + 1
    /\ Return(p, EmojiInterpretationResponse(req[p].meaning))
    /\ UNCHANGED <<users, feedbacks, nextFeedbackId, now, started, sessions, nextUserId>>

interpretEmoji_create(p) ==
    /\ req[p].pc = "i_create"
    /\ IF UniqueViolation(req[p].emoji)
       THEN /\ req' = [req EXCEPT ![p].pc = "i_reread"]
            /\ UNCHANGED <<emojis, nextEmojiId>>
       ELSE /\ emojis' = emojis \cup {[id |-> nextEmojiId, character |-> req[p].emoji,
                                        meaning |-> req[p].meaning]}
            /\ nextEmojiId' = nextEmojiId + 1
            /\ Return(p, EmojiInterpretationResponse(req[p].meaning))
    /\ UNCHANGED <<users, feedbacks, nextFeedbackId, now, started, sessions, nextUserId>>

\* find_unique by character; meaning = emoji_entry.meaning if emoji_entry else meaning
interpretEmoji_reread(p) ==
    /\ req[p].pc = "i_reread"
    /\ LET found == EmojiByCharacter(req[p].emoji)
           m == IF found # {} THEN OneOf(found).meaning ELSE req[p].meaning
       IN req' = [req EXCEPT ![p].pc = "done", ![p].meaning = m,
                             ![p].ret = EmojiInterpretationResponse(m)]
    /\ UNCHANGED <<emojis, users, feedbacks, nextEmojiId, nextFeedbackId, now, started, sessions, nextUserId>>

(***************************************************************************)
(* explainEmoji: POST /emoji/explain                                       *)
(***************************************************************************)
api_post_explainEmoji(p) ==
    /\ Free(p)
    /\ \E c \in Chars :
         req' = [req EXCEPT ![p] = [IdleRequest EXCEPT !.pc = "e_http",
                                     !.op = "explainEmoji", !.emoji = c]]
    /\ started' = started + 1
    /\ UNCHANGED <<emojis, users, feedbacks, nextEmojiId, nextFeedbackId, now, sessions, nextUserId>>

\* client.post, raise_for_status, response.json(), "meaning" in data; the
\* handler never touches the store
explainEmoji_http(p) ==
    /\ req[p].pc = "e_http"
    /\ \E o \in ProviderOutcomes :
         \/ /\ o = "ok"
            /\ \E m \in Meanings :
                 req' = [req EXCEPT ![p].pc = "done", ![p].outcome = o,
                                    ![p].data = m, ![p].calls = @ + 1,
                                    ![p].ret = EmojiExplainResponse(m, "")]
         \/ /\ o = "timeout"
            /\ req' = [req EXCEPT ![p].pc = "e_wait", ![p].outcome = o,
                                  ![p].calls = @ + 1]
         \/ /\ o \notin {"ok", "timeout"}
            /\ req' = [req EXCEPT ![p].pc = "done", ![p].outcome = o,
                                  ![p].calls = @ + 1,
                                  ![p].ret = EmojiExplainResponse("",
                                      CASE o = "no_field" -> MeaningNotFound
                                        [] o = "status_error" -> InvalidResponseFromServer
                                        [] OTHER -> FailedToConnect)]
    /\ UNCHANGED <<emojis, users, feedbacks, nextEmojiId, nextFeedbackId, now, started, sessions, nextUserId>>

\* the provider has not answered within the timeout: except
\* httpx.RequestError returns the "Failed to connect" error
explainEmoji_timeout(p) ==
    /\ req[p].pc = "e_wait"
    /\ TimeoutElapsed(p)
    /\ Return(p, EmojiExplainResponse("", FailedToConnect))
    /\ UNCHANGED <<emojis, users, feedbacks, nextEmojiId, nextFeedbackId, now, started, sessions, nextUserId>>

(***************************************************************************)
(* getSupportedEmojis: GET /api/emojis.  One find_many over the Emoji      *)
(* table, each record listed with its character and meaning.              *)
(***************************************************************************)
getSupportedEmojis ==
    {[character |-> e.character, meaning |-> e.meaning] : e \in emojis}

NextEmoji ==
    \E p \in Slots :
        \/ api_post_fetchEmojiMeaning(p)
        \/ fetchEmojiMeaning_read(p)
        \/ fetchEmojiMeaning_http(p)
        \/ fetchEmojiMeaning_timeout(p)
        \/ fetchEmojiMeaning_create(p)
        \/ api_post_interpretEmoji(p)
        \/ interpretEmoji_http(p)
        \/ interpretEmoji_timeout(p)
        \/ interpretEmoji_create(p)
        \/ interpretEmoji_reread(p)
        \/ api_post_explainEmoji(p)
        \/ explainEmoji_http(p)
        \/ explainEmoji_timeout(p)

SpecEmoji == Init /\ [][NextEmoji]_vars

\* the steps of the handler serving the request of slot p.  The event loop
\* resumes every coroutine whose awaited call has an outcome, and the store,
\* the provider connection and the timeout clock each produce one: a step of
\* a request that stays possible is eventually taken.
EmojiHandlerStep(p) ==
    \/ fetchEmojiMeaning_read(p)
    \/ fetchEmojiMeaning_http(p)
    \/ fetchEmojiMeaning_timeout(p)
    \/ fetchEmojiMeaning_create(p)
    \/ interpretEmoji_http(p)
    \/ interpretEmoji_timeout(p)
    \/ interpretEmoji_create(p)
    \/ interpretEmoji_reread(p)
    \/ explainEmoji_http(p)
    \/ explainEmoji_timeout(p)

FairSpecEmoji == SpecEmoji /\ \A p \in Slots : WF_vars(EmojiHandlerStep(p))

(***************************************************************************)
(* deleteFeedback: DELETE /feedback/{feedbackId}                           *)
(***************************************************************************)
api_delete_deleteFeedback(p) ==
    /\ Free(p)
    /\ \E i \in FeedbackIds :
         req' = [req EXCEPT ![p] = [IdleRequest EXCEPT !.pc = "df_read",
                                     !.op = "deleteFeedback", !.feedbackId = i]]
    /\ started' = started + 1
    /\ UNCHANGED <<emojis, users, feedbacks, nextEmojiId, nextFeedbackId, now, sessions, nextUserId>>

\* find_unique by id, then the two guards: missing, reviewed
deleteFeedback_read_noguard(p) ==
    /\ req[p].pc = "df_read"
    /\ IF FeedbackById(req[p].feedbackId) = {}
       THEN Return(p, DeleteFeedbackResponse(FALSE, NoFeedbackFound))
       ELSE req' = [req EXCEPT ![p].pc = "df_delete"]
    /\ UNCHANGED <<emojis, users, feedbacks, nextEmojiId, nextFeedbackId, now, started, sessions, nextUserId>>

deleteFeedback_read(p) ==
    /\ req[p].pc = "df_read"
    /\ LET found == FeedbackById(req[p].feedbackId)
       IN IF found = {}
          THEN Return(p, DeleteFeedbackResponse(FALSE, NoFeedbackFound))
          ELSE IF OneOf(found).reviewed
          THEN Return(p, DeleteFeedbackResponse(FALSE, ReviewedCannotBeDeleted))
          ELSE req' = [req EXCEPT ![p].pc = "df_delete"]
    /\ UNCHANGED <<emojis, users, feedbacks, nextEmojiId, nextFeedbackId, now, started, sessions, nextUserId>>

\* Feedback.delete by id: the deleted record, or None when it is gone
deleteFeedback_delete_nodelete(p) ==
    /\ req[p].pc = "df_delete"
    /\ Return(p, DeleteFeedbackResponse(TRUE, SuccessfullyDeleted))
    /\ UNCHANGED <<emojis, users, feedbacks, nextEmojiId, nextFeedbackId, now, started, sessions, nextUserId>>

deleteFeedback_delete_raises(p) ==
    /\ req[p].pc = "df_delete"
    /\ LET found == FeedbackById(req[p].feedbackId)
       IN IF found # {}
          THEN /\ feedbacks' = feedbacks \ found
               /\ Return(p, DeleteFeedbackResponse(TRUE, SuccessfullyDeleted))
          ELSE /\ Return(p, InternalServerError("Record to delete does not exist."))
               /\ UNCHANGED feedbacks
    /\ UNCHANGED <<emojis, users, nextEmojiId, nextFeedbackId, now, started, sessions, nextUserId>>

deleteFeedback_delete(p) ==
    /\ req[p].pc = "df_delete"
    /\ LET found == FeedbackById(req[p].feedbackId)
       IN IF found # {}
          THEN /\ feedbacks' = feedbacks \ found
               /\ Return(p, DeleteFeedbackResponse(TRUE, SuccessfullyDeleted))
          ELSE /\ Return(p, DeleteFeedbackResponse(FALSE, DeletionFailed))
               /\ UNCHANGED feedbacks
    /\ UNCHANGED <<emojis, users, nextEmojiId, nextFeedbackId, now, started, sessions, nextUserId>>

(***************************************************************************)
(* deleteUser: DELETE /api/users/{userId}.  The route takes the path       *)
(* parameter alone: the caller (actorId, actorRole) never reaches the      *)
(* handler.                                                                *)
(***************************************************************************)
Callers == {[id |-> 0, role |-> "NONE"]} \cup {[id |-> u.id, role |-> u.role] : u \in users}

api_delete_deleteUser(p) ==
    /\ Free(p)
    /\ \E i \in UserIds, a \in Callers :
         req' = [req EXCEPT ![p] = [IdleRequest EXCEPT !.pc = "du_read",
                                     !.op = "deleteUser", !.userId = i,
                                     !.actorId = a.id, !.actorRole = a.role]]
    /\ started' = started + 1
    /\ UNCHANGED <<emojis, users, feedbacks, nextEmojiId, nextFeedbackId, now, sessions, nextUserId>>

\* find_unique by id, then the two guards: missing, role of that user not ADMIN
deleteUser_read(p) ==
    /\ req[p].pc = "du_read"
    /\ LET found == UserById(req[p].userId)
       IN IF found = {}
          THEN Return(p, DeleteUserResponse(UserNotFound, 404))
          ELSE IF OneOf(found).role # "ADMIN"
          THEN Return(p, DeleteUserResponse(UnauthorizedAccess, 403))
          ELSE req' = [req EXCEPT ![p].pc = "du_delete"]
    /\ UNCHANGED <<emojis, users, feedbacks, nextEmojiId, nextFeedbackId, now, started, sessions, nextUserId>>

\* User.delete by id, its result ignored; a refused delete is an exception
deleteUser_delete(p) ==
    /\ req[p].pc = "du_delete"
    /\ LET found == UserById(req[p].userId)
       IN IF found = {}
          THEN /\ Return(p, DeleteUserResponse(UserSuccessfullyDeleted, 200))
               /\ UNCHANGED users
          ELSE IF UserReferenced(req[p].userId)
          THEN /\ Return(p, InternalServerError(ForeignKeyConstraintFailed))
               /\ UNCHANGED users
          ELSE /\ users' = users \ found
               /\ Return(p, DeleteUserResponse(UserSuccessfullyDeleted, 200))
    /\ UNCHANGED <<emojis, feedbacks, nextEmojiId, nextFeedbackId, now, started, sessions, nextUserId>>

(***************************************************************************)
(* submitFeedback: POST /feedback                                          *)
(***************************************************************************)
api_post_submitFeedback(p) ==
    /\ Free(p)
    /\ \E u \in UserIds, e \in EmojiIds :
         req' = [req EXCEPT ![p] = [IdleRequest EXCEPT !.pc = "sf_user",
                                     !.op = "submitFeedback", !.userId = u,
                                     !.emojiId = e, !.content = "nice"]]
    /\ started' = started + 1
    /\ UNCHANGED <<emojis, users, feedbacks, nextEmojiId, nextFeedbackId, now, sessions, nextUserId>>

submitFeedback_user_nocheck(p) ==
    /\ req[p].pc = "sf_user"
    /\ req' = [req EXCEPT ![p].pc = "sf_emoji"]
    /\ UNCHANGED <<emojis, users, feedbacks, nextEmojiId, nextFeedbackId, now, started, sessions, nextUserId>>

submitFeedback_user(p) ==
    /\ req[p].pc = "sf_user"
    /\ IF UserById(req[p].userId) = {}
       THEN Return(p, FeedbackResponseModel(FALSE, SubmitUserNotFound))
       ELSE req' = [req EXCEPT ![p].pc = "sf_emoji"]
    /\ UNCHANGED <<emojis, users, feedbacks, nextEmojiId, nextFeedbackId, now, started, sessions, nextUserId>>

submitFeedback_emoji(p) ==
    /\ req[p].pc = "sf_emoji"
    /\ IF EmojiById(req[p].emojiId) = {}
       THEN Return(p, FeedbackResponseModel(FALSE, SubmitEmojiNotFound))
       ELSE req' = [req EXCEPT ![p].pc = "sf_create"]
    /\ UNCHANGED <<emojis, users, feedbacks, nextEmojiId, nextFeedbackId, now, started, sessions, nextUserId>>

\* Feedback.create with userId, emojiId, content; id, createdAt and reviewed
\* take the store's defaults
submitFeedback_create(p) ==
    /\ req[p].pc = "sf_create"
    /\ IF ForeignKeyViolation(req[p].userId, req[p].emojiId)
       THEN /\ Return(p, InternalServerError(ForeignKeyConstraintFailed))
            /\ UNCHANGED <<feedbacks, nextFeedbackId, now>>
       ELSE /\ feedbacks' = feedbacks \cup
                   {[id |-> nextFeedbackId, userId |-> req[p].userId,
                     emojiId |-> req[p].emojiId, content |-> req[p].content,
                     createdAt |-> now, reviewed |-> FALSE]}
            /\ nextFeedbackId' = nextFeedbackId + 1
            /\ now' = now + 1
            /\ Return(p, FeedbackResponseModel(TRUE, FeedbackReceived))
    /\ UNCHANGED <<emojis, users, nextEmojiId, started, sessions, nextUserId>>

(***************************************************************************)
(* updateFeedback: PATCH /feedback/{feedbackId}.  The route calls the      *)
(* handler without await; the handler requires the record and replaces     *)
(* its content.                                                            *)
(***************************************************************************)
api_patch_updateFeedback(p) ==
    /\ Free(p)
    /\ \E i \in FeedbackIds :
         req' = [req EXCEPT ![p] = [IdleRequest EXCEPT !.pc = "uf_update",
                                     !.op = "updateFeedback", !.feedbackId = i,
                                     !.content = "edited"]]
    /\ started' = started + 1
    /\ UNCHANGED <<emojis, users, feedbacks, nextEmojiId, nextFeedbackId, now, sessions, nextUserId>>

updateFeedback(p) ==
    /\ req[p].pc = "uf_update"
    /\ LET found == FeedbackById(req[p].feedbackId)
       IN IF found = {}
          THEN /\ Return(p, InternalServerError(FeedbackNotFound))
               /\ UNCHANGED feedbacks
          ELSE /\ feedbacks' = (feedbacks \ found) \cup
                      {[f EXCEPT !.content = req[p].content] : f \in found}
               /\ Return(p, PatchFeedbackResponse(FeedbackUpdated))
    /\ UNCHANGED <<emojis, users, nextEmojiId, nextFeedbackId, now, started, sessions, nextUserId>>

(***************************************************************************)
(* createUser: POST /api/users                                             *)
(***************************************************************************)
\* User.email is a unique key of the store: a create or update that would
\* give a second record an email in use is refused.  The constraint is
\* declared in the store's schema.
EmailTaken_unenforced(email, id) == FALSE
EmailTaken(email, id) == \E u \in users : u.email = email /\ u.id # id

api_post_createUser(p) ==
    /\ Free(p)
    /\ \E e \in Emails, w \in NewPasswords, r \in RequestRoles :
         req' = [req EXCEPT ![p] = [IdleRequest EXCEPT !.pc = "cu_create",
                                     !.op = "createUser", !.email = e,
                                     !.password = w, !.role = r]]
    /\ started' = started + 1
    /\ UNCHANGED <<emojis, users, feedbacks, sessions, nextEmojiId, nextFeedbackId,
                   nextUserId, now>>

\* hash_password, then User.create with email, hashed password and role.name
createUser(p) ==
    /\ req[p].pc = "cu_create"
    /\ IF EmailTaken(req[p].email, 0)
       THEN /\ Return(p, InternalServerError(UniqueConstraintFailed))
            /\ UNCHANGED <<users, nextUserId>>
       ELSE \E salt \in Salts :
            /\ users' = users \cup
                   {[id |-> nextUserId, email |-> req[p].email, role |-> req[p].role,
                     name |-> "",
                     password |-> hash_password(req[p].password, salt)]}
            /\ nextUserId' = nextUserId + 1
            /\ req' = [req EXCEPT ![p].pc = "done",
                                  ![p].body = UserBody(nextUserId, req[p].email,
                                                       req[p].role, "", 0, 0),
                                  ![p].ret = Response(200, "", "", TRUE, "", 0)]
    /\ UNCHANGED <<emojis, feedbacks, sessions, nextEmojiId, nextFeedbackId, now, started>>

(***************************************************************************)
(* userLogin: POST /api/users/login                                        *)
(***************************************************************************)
api_post_userLogin(p) ==
    /\ Free(p)
    /\ \E e \in Emails, w \in Passwords :
         req' = [req EXCEPT ![p] = [IdleRequest EXCEPT !.pc = "ul_find",
                                     !.op = "userLogin", !.email = e,
                                     !.password = w]]
    /\ started' = started + 1
    /\ UNCHANGED <<emojis, users, feedbacks, sessions, nextEmojiId, nextFeedbackId,
                   nextUserId, now>>

\* find_first by email (the record of lowest id); a missing user or a
\* password that does not verify raises ValueError; otherwise the token is
\* signed over {user_id, role}
UsersByEmail(email) == {u \in users : u.email = email}
FirstOf(S) == CHOOSE x \in S : \A y \in S : x.id <= y.id

userLogin(p) ==
    /\ req[p].pc = "ul_find"
    /\ LET found == UsersByEmail(req[p].email)
       IN IF found = {} \/ ~verify(req[p].password, FirstOf(found).password)
          THEN Return(p, InternalServerError(InvalidEmailOrPassword))
          ELSE LET user == FirstOf(found)
               IN req' = [req EXCEPT ![p].pc = "done",
                                     ![p].token = jwt_encode(user.id, user.role),
                                     ![p].body = UserBody(0, user.email, user.role, "", 0, 0),
                                     ![p].ret = Response(200, "", "", TRUE, "", 0)]
    /\ UNCHANGED <<emojis, users, feedbacks, sessions, nextEmojiId, nextFeedbackId,
                   nextUserId, now, started>>


(***************************************************************************)
(* updateUser: PUT /api/users/{userId}                                     *)
(***************************************************************************)
api_put_updateUser(p) ==
    /\ Free(p)
    /\ \E i \in UserIds, e \in Emails, r \in UpdateRoles :
         req' = [req EXCEPT ![p] = [IdleRequest EXCEPT !.pc = "uu_read",
                                     !.op = "updateUser", !.userId = i,
                                     !.email = e, !.name = "n", !.role = r]]
    /\ started' = started + 1
    /\ UNCHANGED <<emojis, users, feedbacks, sessions, nextEmojiId, nextFeedbackId,
                   nextUserId, now>>

\* find_unique by id; a missing user raises ValueError
updateUser_read(p) ==
    /\ req[p].pc = "uu_read"
    /\ IF UserById(req[p].userId) = {}
       THEN Return(p, InternalServerError(UserDoesNotExist))
       ELSE req' = [req EXCEPT ![p].pc = "uu_update"]
    /\ UNCHANGED <<emojis, users, feedbacks, sessions, nextEmojiId, nextFeedbackId,
                   nextUserId, now, started>>

\* User.update by id with email, name and role.value; the result is read
\* without a None check
updateUser_update(p) ==
    /\ req[p].pc = "uu_update"
    /\ LET found == UserById(req[p].userId)
       IN IF found = {}
          THEN /\ Return(p, InternalServerError(RecordNotFound))
               /\ UNCHANGED users
          ELSE IF EmailTaken(req[p].email, req[p].userId)
          THEN /\ Return(p, InternalServerError(UniqueConstraintFailed))
               /\ UNCHANGED users
          ELSE /\ users' = (users \ found) \cup
                      {[u EXCEPT !.email = req[p].email, !.name = req[p].name,
                                 !.role = req[p].role] : u \in found}
               /\ req' = [req EXCEPT ![p].pc = "done",
                                     ![p].body = UserBody(req[p].userId, req[p].email,
                                                          req[p].role, req[p].name, 0, 0),
                                     ![p].ret = Response(200, "", "", TRUE, "", 0)]
    /\ UNCHANGED <<emojis, feedbacks, sessions, nextEmojiId, nextFeedbackId,
                   nextUserId, now, started>>

NextLogin ==
    \E p \in Slots :
        \/ api_post_createUser(p)
        \/ createUser(p)
        \/ api_post_userLogin(p)
        \/ userLogin(p)

SpecLogin == Init /\ [][NextLogin]_vars

NextAccounts ==
    \E p \in Slots :
        \/ api_post_createUser(p)
        \/ createUser(p)
        \/ api_put_updateUser(p)
        \/ updateUser_read(p)
        \/ updateUser_update(p)

SpecAccounts == Init /\ [][NextAccounts]_vars

(***************************************************************************)
(* fetchFeedback: GET /feedback?page&limit                                 *)
(***************************************************************************)
Min(a, b) == IF a < b THEN a ELSE b

\* order={"createdAt": "desc"}: the rows in an order in which no row comes
\* before a newer one; createdAt is the only sort key, so rows of equal
\* createdAt come in whatever order the query happens to produce
NewestFirst(s) ==
    \A i, j \in DOMAIN s : i < j => s[i].createdAt >= s[j].createdAt
OrderedByCreatedAtDesc(S) ==
    {s \in [1..Cardinality(S) -> S] :
        /\ \A i, j \in DOMAIN s : i # j => s[i] # s[j]
        /\ NewestFirst(s)}

\* skip=..., take=...: the rows after the first skip ones, at most take
SkipTake(s, skip, take) ==
    [i \in 1..Min(take, IF Len(s) > skip THEN Len(s) - skip ELSE 0) |-> s[skip + i]]

\* FeedbackDetail(id, content, userEmail=record.user.email, createdAt)
FeedbackDetail(record) ==
    [id |-> record.id, content |-> record.content,
     userEmail |-> OneOf(UserById(record.userId)).email,
     createdAt |-> record.createdAt]

fetchFeedback_request(p, page, limit) ==
    /\ Free(p)
    /\ req' = [req EXCEPT ![p] = [IdleRequest EXCEPT !.pc = "ff_find",
                                    !.op = "fetchFeedback",
                                    !.page = page, !.limit = limit]]
    /\ started' = started + 1
    /\ UNCHANGED <<emojis, users, feedbacks, sessions, nextEmojiId, nextFeedbackId,
                   nextUserId, now>>

api_get_fetchFeedback(p) ==
    \E page \in Pages, limit \in Limits : fetchFeedback_request(p, page, limit)

\* requests for the first page only
api_get_fetchFeedback_firstPage(p) ==
    \E limit \in Limits : fetchFeedback_request(p, 1, limit)

\* skip = (page - 1) * limit; find_many(skip, take=limit, include user,
\* order createdAt desc)
fetchFeedback_find(p) ==
    /\ req[p].pc = "ff_find"
    /\ \E s \in OrderedByCreatedAtDesc(feedbacks) :
         req' = [req EXCEPT ![p].pc = "ff_count",
                            ![p].rows = SkipTake(s, (req[p].page - 1) * req[p].limit,
                                                 req[p].limit)]
    /\ UNCHANGED <<emojis, users, feedbacks, sessions, nextEmojiId, nextFeedbackId,
                   nextUserId, now, started>>

\* count(); total_pages = (count + limit - 1) // limit; the rows become
\* FeedbackDetail items
fetchFeedback_count(p) ==
    /\ req[p].pc = "ff_count"
    /\ req' = [req EXCEPT ![p].pc = "done",
                          ![p].totalPages =
                              (Cardinality(feedbacks) + req[p].limit - 1) \div req[p].limit,
                          ![p].rows = [i \in DOMAIN req[p].rows |->
                                          FeedbackDetail(req[p].rows[i])],
                          ![p].ret = Response(200, "", "", TRUE, "", 0)]
    /\ UNCHANGED <<emojis, users, feedbacks, sessions, nextEmojiId, nextFeedbackId,
                   nextUserId, now, started>>

\* a table of records whose createdAt values may coincide
InitPage ==
    \E n \in TableSizes :
        \E c \in [1..n -> CreatedAts] :
            InitWith({[id |-> i, userId |-> 2, emojiId |-> 1, content |-> "nice",
                       createdAt |-> c[i], reviewed |-> FALSE] : i \in 1..n})

NextPage ==
    \E p \in Slots :
        \/ api_get_fetchFeedback(p)
        \/ fetchFeedback_find(p)
        \/ fetchFeedback_count(p)

SpecPage == InitPage /\ [][NextPage]_vars

(***************************************************************************)
(* getUserDetails: GET /api/users/{userId}                                 *)
(***************************************************************************)
\* session.expiresAt > datetime.datetime.now()
IsActive_inclusive(session, time) == session.expiresAt >= time
IsActive(session, time) == session.expiresAt > time

api_get_getUserDetails(p) ==
    /\ Free(p)
    /\ \E i \in UserIds :
         req' = [req EXCEPT ![p] = [IdleRequest EXCEPT !.pc = "gd_read",
                                     !.op = "getUserDetails", !.userId = i]]
    /\ started' = started + 1
    /\ UNCHANGED <<emojis, users, feedbacks, sessions, nextEmojiId, nextFeedbackId,
                   nextUserId, now>>

\* find_unique by id with the user's feedbacks and sessions included; a
\* missing user raises ValueError; the sessions are counted against the
\* clock read at that moment, the feedbacks with len
getUserDetails(p) ==
    /\ req[p].pc = "gd_read"
    /\ LET found == UserById(req[p].userId)
       IN IF found = {}
          THEN Return(p, InternalServerError(UserModelNotFound))
          ELSE LET user == OneOf(found)
                   user_feedbacks == {f \in feedbacks : f.userId = user.id}
                   user_sessions == {t \in sessions : t.userId = user.id}
                   active_sessions_count ==
                       Cardinality({t \in user_sessions : IsActive(t, now)})
               IN req' = [req EXCEPT ![p].pc = "done",
                                     ![p].time = now,
                                     ![p].body = UserBody(user.id, user.email, user.role, "",
                                                          Cardinality(user_feedbacks),
                                                          active_sessions_count),
                                     ![p].ret = Response(200, "", "", TRUE, "", 0)]
    /\ UNCHANGED <<emojis, users, feedbacks, sessions, nextEmojiId, nextFeedbackId,
                   nextUserId, now, started>>

NextDetails ==
    \E p \in Slots :
        \/ api_get_getUserDetails(p)
        \/ getUserDetails(p)
        \/ api_post_submitFeedback(p)
        \/ submitFeedback_user(p)
        \/ submitFeedback_emoji(p)
        \/ submitFeedback_create(p)
        \/ api_delete_deleteFeedback(p)
        \/ deleteFeedback_read(p)
        \/ deleteFeedback_delete(p)

SpecDetails == Init /\ [][NextDetails]_vars

(***************************************************************************)
(* getHistory: GET /api/history.  The route hands the request model to the *)
(* handler; the caller (actorId) is not among the handler's inputs.        *)
(***************************************************************************)
\* EmojiDetails(emoji=f.emoji.character, meaning=f.emoji.meaning)
EmojiDetails(f) ==
    [emoji |-> OneOf(EmojiById(f.emojiId)).character,
     meaning |-> OneOf(EmojiById(f.emojiId)).meaning]

\* the user whose feedback the handler lists
history_user_id_caller(p) == req[p].actorId
history_user_id(p) == 1

api_get_getHistory(p) ==
    /\ Free(p)
    /\ \E a \in Callers :
         req' = [req EXCEPT ![p] = [IdleRequest EXCEPT !.pc = "gh_find",
                                     !.op = "getHistory",
                                     !.actorId = a.id, !.actorRole = a.role]]
    /\ started' = started + 1
    /\ UNCHANGED <<emojis, users, feedbacks, sessions, nextEmojiId, nextFeedbackId,
                   nextUserId, now>>

\* user_id = 1; find_many(where userId = user_id, include emoji, order
\* createdAt desc); one EmojiDetails per record found
getHistory(p) ==
    /\ req[p].pc = "gh_find"
    /\ \E s \in OrderedByCreatedAtDesc({f \in feedbacks : f.userId = history_user_id(p)}) :
         req' = [req EXCEPT ![p].pc = "done",
                            ![p].rows = [i \in DOMAIN s |-> EmojiDetails(s[i])],
                            ![p].ret = Response(200, "", "", TRUE, "", 0)]
    /\ UNCHANGED <<emojis, users, feedbacks, sessions, nextEmojiId, nextFeedbackId,
                   nextUserId, now, started>>

NextHistory ==
    \E p \in Slots :
        \/ api_get_getHistory(p)
        \/ getHistory(p)
        \/ api_post_submitFeedback(p)
        \/ submitFeedback_user(p)
        \/ submitFeedback_emoji(p)
        \/ submitFeedback_create(p)

SpecHistory == Init /\ [][NextHistory]_vars

(***************************************************************************)
(* submitFeedback, deleteUser and fetchFeedback interleaved                *)
(***************************************************************************)
NextOwners ==
    \E p \in Slots :
        \/ api_post_submitFeedback(p)
        \/ submitFeedback_user(p)
        \/ submitFeedback_emoji(p)
        \/ submitFeedback_create(p)
        \/ api_delete_deleteUser(p)
        \/ deleteUser_read(p)
        \/ deleteUser_delete(p)
        \/ api_get_fetchFeedback_firstPage(p)
        \/ fetchFeedback_find(p)
        \/ fetchFeedback_count(p)

SpecOwners == Init /\ [][NextOwners]_vars

(***************************************************************************)
(* deleteFeedback requests racing each other and submitFeedback            *)
(***************************************************************************)
NextDeletes ==
    \E p \in Slots :
        \/ api_delete_deleteFeedback(p)
        \/ deleteFeedback_read(p)
        \/ deleteFeedback_delete(p)
        \/ api_post_submitFeedback(p)
        \/ submitFeedback_user(p)
        \/ submitFeedback_emoji(p)
        \/ submitFeedback_create(p)

SpecDeletes == Init /\ [][NextDeletes]_vars

NextCrud ==
    \E p \in Slots :
        \/ api_delete_deleteFeedback(p)
        \/ deleteFeedback_read(p)
        \/ deleteFeedback_delete(p)
        \/ api_delete_deleteUser(p)
        \/ deleteUser_read(p)
        \/ deleteUser_delete(p)
        \/ api_post_submitFeedback(p)
        \/ submitFeedback_user(p)
        \/ submitFeedback_emoji(p)
        \/ submitFeedback_create(p)
        \/ api_patch_updateFeedback(p)
        \/ updateFeedback(p)

SpecCrud == Init /\ [][NextCrud]_vars

Next ==
    \/ NextEmoji \/ NextCrud \/ NextLogin \/ NextAccounts
    \/ NextPage \/ NextDetails \/ NextHistory \/ NextOwners \/ NextDeletes

Spec == Init /\ [][Next]_vars

(***************************************************************************)
(* Properties of the emoji meaning endpoints, checked under SpecEmoji.     *)
(***************************************************************************)
MeaningOps == {"explainEmoji", "interpretEmoji", "fetchEmojiMeaning"}
FailureMessages == {NoInterpretationFound, FailedToInterpret, MeaningNotFound,
                    InvalidResponseFromServer, FailedToConnect, HttpErrorOccurred,
                    NetworkError, AnErrorOccurred}
SuccessShaped(r) == r.http = 200 /\ r.error = ""
StoredMeanings(c) == {e.meaning : e \in EmojiByCharacter(c)}
Finished(p, op) == req[p].op = op /\ req[p].pc = "done"

\* C1: when resolutions of the same character race and the provider
\* succeeds for each, no duplicate-key failure surfaces: every caller of
\* fetchEmojiMeaning or interpretEmoji whose provider call succeeded gets a
\* success response carrying the meaning of the stored record of its character.
C1_NoDuplicateKeyFailureSurfaces ==
    \A p \in Slots :
        (/\ req[p].op \in {"fetchEmojiMeaning", "interpretEmoji"}
         /\ req[p].pc = "done"
         /\ req[p].outcome = "ok")
        => (/\ req[p].ret.http = 200
            /\ req[p].ret.meaning \in StoredMeanings(req[p].emoji))

\* C2: in every reachable state the store holds at most one Emoji record
\* per character.
C2_AtMostOneEmojiPerCharacter ==
    \A c \in Chars : Cardinality(EmojiByCharacter(c)) <= 1

\* a create for the new character "c2" was refused because a concurrent
\* resolution stored it first, and one record of "c2" is stored
C2_Witness ==
    \E p \in Slots :
        /\ req[p].pc = "i_reread"
        /\ req[p].emoji = "c2"
        /\ Cardinality(EmojiByCharacter("c2")) = 1

\* C3: once an Emoji record is stored, no step of any handler changes its
\* meaning or removes it, whatever later provider calls return.
C3_StoredEmojiNeverChanges ==
    [][\A e \in emojis : e \in emojis']_vars

\* a provider call for a stored character returned a meaning other than the
\* stored one, the handler finished, and the stored meaning is still in place
C3_Witness ==
    \E p \in Slots :
        /\ Finished(p, "interpretEmoji")
        /\ req[p].outcome = "ok"
        /\ \E e \in EmojiByCharacter(req[p].emoji) :
               e.meaning # req[p].data /\ req[p].ret.meaning = e.meaning

\* C4: fetchEmojiMeaning of a character that has a stored record returns the
\* stored meaning in the step that reads the store, with no provider call by
\* any request and with the store unchanged.
C4_FetchHitMakesNoProviderCall ==
    [][\A p \in Slots :
          (/\ req[p].pc = "f_read"
           /\ req'[p].pc # "f_read"
           /\ EmojiByCharacter(req[p].emoji) # {})
          => (/\ req'[p].pc = "done"
              /\ req'[p].ret.http = 200
              /\ req'[p].ret.error = ""
              /\ req'[p].ret.meaning \in StoredMeanings(req[p].emoji)
              /\ req'[p].calls = 0
              /\ \A q \in Slots : req'[q].calls = req[q].calls
              /\ emojis' = emojis
              /\ nextEmojiId' = nextEmojiId)]_vars

\* a fetchEmojiMeaning of "c2", stored by an earlier request, finished
\* with the stored meaning and without a provider call
C4_Witness ==
    \E p \in Slots :
        /\ Finished(p, "fetchEmojiMeaning")
        /\ req[p].emoji = "c2"
        /\ req[p].calls = 0
        /\ req[p].ret.http = 200
        /\ req[p].ret.meaning \in StoredMeanings("c2")

\* C5: a fetchEmojiMeaning of a character with no stored record, whose
\* provider call succeeded and whose character is still unstored when it
\* creates, has made exactly one provider call, adds exactly one Emoji record
\* (its character, the meaning the provider returned) and returns that meaning;
\* no fetchEmojiMeaning makes more than one provider call.
C5_FetchMissCreatesOneRecord ==
    /\ [][\A p \in Slots :
            (/\ req[p].pc = "f_create"
             /\ req'[p].pc # "f_create"
             /\ EmojiByCharacter(req[p].emoji) = {})
            => (/\ req[p].outcome = "ok"
                /\ req[p].calls = 1
                /\ req'[p].calls = 1
                /\ emojis \subseteq emojis'
                /\ Cardinality(emojis' \ emojis) = 1
                /\ \A e \in emojis' \ emojis :
                       e.character = req[p].emoji /\ e.meaning = req[p].data
                /\ req'[p].pc = "done"
                /\ req'[p].ret = EmojiExplainerResponse(req[p].data))]_vars
    /\ [](\A p \in Slots : req[p].op = "fetchEmojiMeaning" => req[p].calls <= 1)

\* a fetchEmojiMeaning of the unstored "c2" finished after one provider call
\* with the provider's meaning, which is now the stored meaning of "c2"
C5_Witness ==
    \E p \in Slots :
        /\ Finished(p, "fetchEmojiMeaning")
        /\ req[p].emoji = "c2"
        /\ req[p].calls = 1
        /\ req[p].outcome = "ok"
        /\ req[p].ret = EmojiExplainerResponse(req[p].data)
        /\ StoredMeanings("c2") = {req[p].data}

\* C6: a meaning endpoint whose provider call failed (connection failure,
\* timeout, non-success status, payload without the expected field) creates
\* no Emoji record and makes no second provider call.
C6_NoRecordOnProviderFailure ==
    [][\A p \in Slots :
          (/\ req[p].op \in MeaningOps
           /\ req[p].outcome \in FailureOutcomes
           /\ req'[p] # req[p])
          => (emojis' = emojis /\ req'[p].calls <= 1)]_vars

\* C7: a failed meaning resolution is distinguishable from a successful one:
\* no meaning endpoint answers a failed provider call with a success-shaped
\* response, no success-shaped response carries a failure message as its
\* meaning, and one endpoint reports a connection failure and a malformed
\* payload differently.
C7_FailureIsDistinguishable ==
    /\ \A p \in Slots :
         (req[p].op \in MeaningOps /\ req[p].pc = "done")
         => (/\ req[p].outcome \in FailureOutcomes => ~SuccessShaped(req[p].ret)
             /\ SuccessShaped(req[p].ret) => req[p].ret.meaning \notin FailureMessages)
    /\ \A p, q \in Slots :
         (/\ req[p].op \in MeaningOps /\ req[p].pc = "done"
          /\ req[q].op = req[p].op /\ req[q].pc = "done"
          /\ req[p].outcome = "request_error" /\ req[q].outcome = "no_field")
         => req[p].ret # req[q].ret

(***************************************************************************)
(* Properties of the feedback and user endpoints, checked under SpecCrud.  *)
(***************************************************************************)
StoreUnchanged ==
    /\ emojis' = emojis
    /\ users' = users
    /\ feedbacks' = feedbacks

\* C8: deleteFeedback on a record whose reviewed flag is true fails with the
\* already-reviewed response (success = false) and leaves every record
\* unchanged; no step of any handler removes a reviewed Feedback record or
\* resets its flag.
C8_ReviewedFeedbackIsNeverDeleted ==
    /\ [][\A p \in Slots :
            (/\ req[p].pc = "df_read"
             /\ req'[p].pc # "df_read"
             /\ \E f \in FeedbackById(req[p].feedbackId) : f.reviewed)
            => (/\ req'[p].pc = "done"
                /\ req'[p].ret = DeleteFeedbackResponse(FALSE, ReviewedCannotBeDeleted)
                /\ StoreUnchanged)]_vars
    /\ [][\A f \in feedbacks :
            f.reviewed => \E g \in feedbacks' : g.id = f.id /\ g.reviewed]_vars

\* a deleteFeedback of the reviewed record 1 finished with the
\* already-reviewed failure and the record is still stored
C8_Witness ==
    \E p \in Slots :
        /\ Finished(p, "deleteFeedback")
        /\ req[p].feedbackId = 1
        /\ req[p].ret = DeleteFeedbackResponse(FALSE, ReviewedCannotBeDeleted)
        /\ \E f \in FeedbackById(1) : f.reviewed

\* C9: the delete step of deleteFeedback on a stored, unreviewed record
\* removes exactly that record and returns success; a deleteFeedback that
\* reads after the record is gone returns the not-found failure and changes
\* nothing; the id of a removed record is never stored again.
C9_DeleteThenNotFound ==
    /\ [][\A p \in Slots :
            (/\ req[p].pc = "df_delete"
             /\ req'[p].pc # "df_delete"
             /\ FeedbackById(req[p].feedbackId) # {})
            => (/\ \A f \in FeedbackById(req[p].feedbackId) : ~f.reviewed
                /\ Cardinality(FeedbackById(req[p].feedbackId)) = 1
                /\ feedbacks' = feedbacks \ FeedbackById(req[p].feedbackId)
                /\ emojis' = emojis
                /\ users' = users
                /\ req'[p].pc = "done"
                /\ req'[p].ret = DeleteFeedbackResponse(TRUE, SuccessfullyDeleted))]_vars
    /\ [][\A p \in Slots :
            (/\ req[p].pc = "df_read"
             /\ req'[p].pc # "df_read"
             /\ FeedbackById(req[p].feedbackId) = {})
            => (/\ req'[p].pc = "done"
                /\ req'[p].ret = DeleteFeedbackResponse(FALSE, NoFeedbackFound)
                /\ StoreUnchanged)]_vars
    /\ [][\A i \in 1..(nextFeedbackId - 1) :
            FeedbackById(i) = {} => \A g \in feedbacks' : g.id # i]_vars

\* one deleteFeedback of the unreviewed record 2 returned success, a
\* second one with the same id returned not-found, and the record is gone
C9_Witness ==
    \E p, q \in Slots :
        /\ p # q
        /\ Finished(p, "deleteFeedback") /\ Finished(q, "deleteFeedback")
        /\ req[p].feedbackId = 2 /\ req[q].feedbackId = 2
        /\ req[p].ret = DeleteFeedbackResponse(TRUE, SuccessfullyDeleted)
        /\ req[q].ret = DeleteFeedbackResponse(FALSE, NoFeedbackFound)
        /\ FeedbackById(2) = {}

\* C10: a User record is deleted only on the request of an actor whose role
\* is ADMIN: no step of a delete-user request made by another actor changes
\* the User table, and such a request against another, existing account
\* finishes with the Unauthorized response (status 403).
C10_OnlyAdminActorDeletesUser ==
    [][\A p \in Slots :
          (/\ req[p].op = "deleteUser"
           /\ req[p].actorRole \in Roles \ {"ADMIN"}
           /\ req'[p] # req[p])
          => (/\ users' = users
              /\ (/\ req'[p].op = "deleteUser"
                  /\ req'[p].pc = "done"
                  /\ req[p].actorId # req[p].userId
                  /\ UserById(req[p].userId) # {})
                 => req'[p].ret = DeleteUserResponse(UnauthorizedAccess, 403))]_vars

(***************************************************************************)
(* Accounts and login                                                      *)
(***************************************************************************)
\* the password hashes to the stored value under none of the salts
Mismatch(password, hash) == \A s \in Salts : hash_password(password, s) # hash

C13_EmailStaysUnique ==
    /\ [](\A u, v \in users : u.email = v.email => u = v)
    /\ [][\A p \in Slots :
            /\ (/\ req[p].pc = "cu_create" /\ req'[p].pc = "done"
                /\ \E u \in users : u.email = req[p].email)
               => (req'[p].ret.http = 500 /\ users' = users)
            /\ (/\ req[p].pc = "uu_update" /\ req'[p].pc = "done"
                /\ \E u \in users : u.email = req[p].email /\ u.id # req[p].userId)
               => (req'[p].ret.http = 500 /\ users' = users)]_vars

\* a createUser and an updateUser have both been refused for an email in
\* use, after another request has changed the email of an account
C13_Witness ==
    \E p, q \in Slots :
        /\ Finished(p, "createUser") /\ Finished(q, "updateUser")
        /\ req[p].ret = InternalServerError(UniqueConstraintFailed)
        /\ req[q].ret = InternalServerError(UniqueConstraintFailed)
        /\ \E u \in users : u.id = 2 /\ u.email = "b@x.com"

(***************************************************************************)
(* Pagination                                                              *)
(***************************************************************************)
RowIds(rows) == {rows[i].id : i \in DOMAIN rows}

\* totalPages = ceil(T / L) for T records and page size L
IsCeiling(pages, T, L) == pages * L >= T /\ (pages - 1) * L < T

\* the answers to two page requests of one page size never contradict a
\* concatenation that lists every record once, newest first
PagesAgree ==
    \A p, q \in Slots :
        (/\ Finished(p, "fetchFeedback") /\ Finished(q, "fetchFeedback")
         /\ req[p].limit = req[q].limit
         /\ req[p].page < req[q].page)
        => /\ RowIds(req[p].rows) \cap RowIds(req[q].rows) = {}
           /\ \A i \in DOMAIN req[p].rows, j \in DOMAIN req[q].rows :
                 req[p].rows[i].createdAt >= req[q].rows[j].createdAt

\* C12: over a fixed table of T Feedback records and for a page size L >= 1,
\* every answer of fetchFeedback reports totalPages = ceil(T / L); page k of
\* 1..totalPages holds min(L, T - (k-1)L) records, newest first; and two
\* different pages share no record, the earlier page holding the newer
\* records.  Together: pages 1..totalPages concatenated list every record
\* exactly once, newest first.
C12_PagesPartitionNewestFirst ==
    /\ \A p \in Slots :
          Finished(p, "fetchFeedback")
          => LET T == Cardinality(feedbacks)
                 L == req[p].limit
                 k == req[p].page
             IN /\ IsCeiling(req[p].totalPages, T, L)
                /\ k <= req[p].totalPages
                   => /\ Len(req[p].rows) = Min(L, T - (k - 1) * L)
                      /\ NewestFirst(req[p].rows)
                      /\ RowIds(req[p].rows) \subseteq {f.id : f \in feedbacks}
    /\ PagesAgree

(***************************************************************************)
(* The routes' error answers                                               *)
(***************************************************************************)
\* C14: a request whose handler failed with an exception is answered with
\* status 500 and a body that carries the exception's message under the key
\* error (the failure is converted by the route and does not leave it).
C14_FailureAnsweredWithMessage ==
    \A p \in Slots :
        (req[p].pc = "done" /\ req[p].ret.http = 500)
        => /\ Answer(req[p].ret).status = 500
           /\ Answer(req[p].ret).body.error = req[p].ret.error

(***************************************************************************)
(* Termination of the meaning endpoints                                    *)
(***************************************************************************)
\* C15: every request to a meaning endpoint is eventually answered; and the
\* request whose provider call got no answer is answered, after the timeout,
\* with a failure: the 500 error response, or the response with its error
\* field set and no meaning.
C15_MeaningRequestsComplete ==
    /\ \A p \in Slots :
          (req[p].op \in MeaningOps /\ req[p].pc # "done") ~> (req[p].pc = "done")
    /\ [](\A p \in Slots :
            (req[p].op \in MeaningOps /\ req[p].pc = "done" /\ req[p].outcome = "timeout")
            => /\ req[p].ret.meaning = ""
               /\ req[p].ret.http = 500 \/ req[p].ret.error # "")

\* a request to each of two endpoints has been answered after its provider
\* call timed out
C15_Witness ==
    \E p, q \in Slots :
        /\ Finished(p, "interpretEmoji") /\ req[p].outcome = "timeout"
        /\ Finished(q, "explainEmoji") /\ req[q].outcome = "timeout"
        /\ req[p].ret.http = 500 /\ req[q].ret.error = FailedToConnect

(***************************************************************************)
(* Idempotence                                                             *)
(***************************************************************************)
\* the inputs of a request: everything its route received
Input(r) ==
    <<r.op, r.emoji, r.userId, r.feedbackId, r.emojiId, r.content,
      r.email, r.password, r.role, r.name, r.page, r.limit>>

\* C16: every handler is idempotent on the store: when a handler has been
\* invoked and has answered, and it is invoked with the same input again
\* (these being the only two requests), the second invocation leaves the
\* User, Emoji, Feedback and Session records as the first one left them.
C16_SecondInvocationChangesNothing ==
    [][\A p, q \in Slots :
          (/\ p # q
           /\ started = 2
           /\ req[q].pc = "done"
           /\ req[p].pc \notin {"idle", "done"}
           /\ Input(req[p]) = Input(req[q]))
          => (StoreUnchanged /\ sessions' = sessions)]_vars

(***************************************************************************)
(* Meanings looked up are stored                                           *)
(***************************************************************************)
\* C17: when a request to one of the three meaning endpoints is answered
\* with success after its provider call returned a meaning (and, where the
\* answer is given in the step of the provider call itself, the character
\* had no stored record), then an Emoji record for the request's character
\* holds the meaning answered, and getSupportedEmojis lists the character
\* with it.
C17_LookedUpMeaningIsStored ==
    [][\A p \in Slots :
          (/\ req[p].op \in MeaningOps
           /\ req[p].pc # "done" /\ req'[p].pc = "done"
           /\ req'[p].outcome = "ok"
           /\ req[p].outcome = "none" => EmojiByCharacter(req[p].emoji) = {}
           /\ req'[p].ret.http = 200 /\ req'[p].ret.error = "")
          => /\ \E e \in emojis' : /\ e.character = req[p].emoji
                                   /\ e.meaning = req'[p].ret.meaning
             /\ [character |-> req[p].emoji, meaning |-> req'[p].ret.meaning]
                   \in getSupportedEmojis']_vars

C19_SubmitFeedbackOutcomes ==
    [][\A p \in Slots :
          /\ (req[p].pc = "sf_user" /\ req'[p] # req[p])
             => /\ StoreUnchanged
                /\ IF UserById(req[p].userId) = {}
                   THEN /\ req'[p].pc = "done"
                        /\ req'[p].ret = FeedbackResponseModel(FALSE, SubmitUserNotFound)
                   ELSE req'[p].pc = "sf_emoji"
          /\ (req[p].pc = "sf_emoji" /\ req'[p] # req[p])
             => /\ StoreUnchanged
                /\ IF EmojiById(req[p].emojiId) = {}
                   THEN /\ req'[p].pc = "done"
                        /\ req'[p].ret = FeedbackResponseModel(FALSE, SubmitEmojiNotFound)
                   ELSE req'[p].pc = "sf_create"
          /\ (/\ req[p].pc = "sf_create" /\ req'[p] # req[p]
              /\ UserById(req[p].userId) # {} /\ EmojiById(req[p].emojiId) # {})
             => /\ req'[p].ret = FeedbackResponseModel(TRUE, FeedbackReceived)
                /\ feedbacks \subseteq feedbacks'
                /\ Cardinality(feedbacks' \ feedbacks) = 1
                /\ \A f \in feedbacks' \ feedbacks :
                      /\ f.userId = req[p].userId
                      /\ f.emojiId = req[p].emojiId
                      /\ f.content = req[p].content
                /\ users' = users /\ emojis' = emojis]_vars

\* one submitFeedback has added the third Feedback record, and one for a
\* missing user has been answered with the user-not-found failure
C19_Witness ==
    \E p, q \in Slots :
        /\ Finished(p, "submitFeedback") /\ Finished(q, "submitFeedback")
        /\ req[p].ret = FeedbackResponseModel(TRUE, FeedbackReceived)
        /\ req[q].ret = FeedbackResponseModel(FALSE, SubmitUserNotFound)
        /\ Cardinality(feedbacks) = 3
        /\ \E f \in feedbacks : f.id = 3 /\ f.userId = req[p].userId

C21_HistoryOfTheCaller ==
    [][\A p \in Slots :
          (/\ req[p].pc = "gh_find" /\ req'[p].pc = "done"
           /\ \E u \in users : u.id = req[p].actorId)
          => \E s \in OrderedByCreatedAtDesc({f \in feedbacks : f.userId = req[p].actorId}) :
                req'[p].rows = [i \in DOMAIN s |-> EmojiDetails(s[i])]]_vars

C23_OneDeleteSucceeds ==
    /\ [][\A p \in Slots :
            (/\ req[p].pc = "df_delete"
             /\ req'[p].pc # "df_delete"
             /\ FeedbackById(req[p].feedbackId) = {})
            => (/\ req'[p].pc = "done"
                /\ req'[p].ret.http = 200
                /\ req'[p].ret.success = FALSE
                /\ feedbacks' = feedbacks)]_vars
    /\ [](\A p, q \in Slots :
            (/\ p # q
             /\ Finished(p, "deleteFeedback") /\ Finished(q, "deleteFeedback")
             /\ req[p].feedbackId = req[q].feedbackId)
            => ~(req[p].ret.success /\ req[q].ret.success))

\* both requests read record 2 before either deleted it: one removed it,
\* the other was answered with the deletion failure
C23_Witness ==
    \E p, q \in Slots :
        /\ p # q
        /\ Finished(p, "deleteFeedback") /\ Finished(q, "deleteFeedback")
        /\ req[p].feedbackId = 2 /\ req[q].feedbackId = 2
        /\ req[p].ret = DeleteFeedbackResponse(TRUE, SuccessfullyDeleted)
        /\ req[q].ret = DeleteFeedbackResponse(FALSE, DeletionFailed)
        /\ FeedbackById(2) = {}

====
